---- MODULE Spec2Model ----
(***************************************************************************)
(* Farm monitoring service (minimal_app.py): the cow, sensor and           *)
(* measurement tables, the HTTP handlers that write and read them, the     *)
(* report and the ill-cow classifier.                                      *)
(*                                                                         *)
(* Conventions.  A table with rows in insertion (rowid / autoincrement)    *)
(* order is a sequence; the autoincrement id of a measurement row is its   *)
(* index.  A Python string that the code parses or formats (a date) is a   *)
(* sequence of one-character strings; other strings are TLA+ strings.      *)
(* A nullable value is a sequence of length 0 (None) or 1.  A float is an  *)
(* exact rational [num, den] in lowest terms with den > 0; the inputs are  *)
(* integer-valued, so sums are exact and the model does not round.         *)
(***************************************************************************)
EXTENDS Integers, Sequences, FiniteSets, TLC

VARIABLES
    cow,                 \* table cow: sequence of [id, name, birthdate]
    sensor,              \* table sensor: set of [id, unit], id unique
    measurement,         \* table measurement (generic): sequence of rows
    milk_measurement,    \* table milk_measurement: sequence of rows
    weight_measurement,  \* table weight_measurement: sequence of rows
    response,            \* the last HTTP request with its response
    inflight             \* per server thread: the POST /cows/<id> it is running

vars ==
    <<cow, sensor, measurement, milk_measurement, weight_measurement, response,
      inflight>>

store == <<cow, sensor, measurement, milk_measurement, weight_measurement>>

(***************************************************************************)
(* Bounds of the model.                                                    *)
(***************************************************************************)
\* rows the generic measurement table may hold
MaxMeasurements == 2

\* rows of a measurements.parquet file, and rows milk_measurement and
\* weight_measurement may hold together
MaxRows == 2

(***************************************************************************)
(* Nullable values and sequences.                                          *)
(***************************************************************************)
None == <<>>

Some(x) == <<x>>

Range(s) == {s[i] : i \in 1..Len(s)}

SeqsUpTo(S, n) == UNION {[1..k -> S] : k \in 0..n}

RECURSIVE SumValues(_)
SumValues(rows) ==
    IF rows = <<>> THEN 0 ELSE Head(rows).value + SumValues(Tail(rows))

(***************************************************************************)
(* Rationals: the real values of the averages and of the expressions on   *)
(* them.  The doubles of the code are these values rounded; where the      *)
(* rounding decides an outcome it is modelled in change_percent_lt.        *)
(***************************************************************************)
Abs(n) == IF n < 0 THEN -n ELSE n

RECURSIVE GCD(_, _)
GCD(a, b) == IF b = 0 THEN a ELSE GCD(b, a % b)

Rat(n, d) ==
    LET s == IF d < 0 THEN -1 ELSE 1
        g == GCD(Abs(n), Abs(d))
    IN  [num |-> (s * n) \div g, den |-> (s * d) \div g]

RatInt(n) == [num |-> n, den |-> 1]

RatSub(a, b) == Rat(a.num * b.den - b.num * a.den, a.den * b.den)

RatMul(a, b) == Rat(a.num * b.num, a.den * b.den)

\* a / b for b # 0
RatDiv(a, b) == Rat(a.num * b.den, a.den * b.num)

RatLess(a, b) == a.num * b.den < b.num * a.den

(***************************************************************************)
(* datetime.strptime(v, '%Y-%m-%d') and strftime('%Y-%m-%d').              *)
(***************************************************************************)
Digits == <<"0", "1", "2", "3", "4", "5", "6", "7", "8", "9">>

IsDigit(c) == \E i \in 1..10 : Digits[i] = c

DigitVal(c) == (CHOOSE i \in 1..10 : Digits[i] = c) - 1

IsLeap(y) == (y % 4 = 0 /\ y % 100 # 0) \/ y % 400 = 0

DaysInMonth(y, m) ==
    IF m = 2 THEN (IF IsLeap(y) THEN 29 ELSE 28)
    ELSE IF m \in {4, 6, 9, 11} THEN 30 ELSE 31

\* the regex group of %m: 1[0-2] | 0[1-9] | [1-9]
MonthField(f) ==
    \/ Len(f) = 2 /\ f[1] = "1" /\ f[2] \in {"0", "1", "2"}
    \/ Len(f) = 2 /\ f[1] = "0" /\ IsDigit(f[2]) /\ f[2] # "0"
    \/ Len(f) = 1 /\ IsDigit(f[1]) /\ f[1] # "0"

\* the regex group of %d: 3[01] | [12]\d | 0[1-9] | [1-9] | " "[1-9]
DayField(f) ==
    \/ Len(f) = 2 /\ f[1] = "3" /\ f[2] \in {"0", "1"}
    \/ Len(f) = 2 /\ f[1] \in {"1", "2"} /\ IsDigit(f[2])
    \/ Len(f) = 2 /\ f[1] \in {"0", " "} /\ IsDigit(f[2]) /\ f[2] # "0"
    \/ Len(f) = 1 /\ IsDigit(f[1]) /\ f[1] # "0"

FieldVal(f) ==
    IF Len(f) = 1 THEN DigitVal(f[1])
    ELSE (IF f[1] = " " THEN 0 ELSE 10 * DigitVal(f[1])) + DigitVal(f[2])

\* the parsed date [y, m, d] as Some(..), or None where strptime raises
\* ValueError (no match, unconverted data, or a day the month does not have)
strptime(v) ==
    IF ~(Len(v) \in 8..10 /\ (\A i \in 1..4 : IsDigit(v[i])) /\ v[5] = "-")
    THEN None
    ELSE LET ps == {p \in 7..8 : p < Len(v) /\ v[p] = "-"}
         IN  IF ps = {} THEN None
             ELSE LET p  == CHOOSE q \in ps : \A r \in ps : q <= r
                      mf == SubSeq(v, 6, p - 1)
                      df == SubSeq(v, p + 1, Len(v))
                      y  == 1000 * DigitVal(v[1]) + 100 * DigitVal(v[2])
                            + 10 * DigitVal(v[3]) + DigitVal(v[4])
                  IN  IF ~(MonthField(mf) /\ DayField(df)) THEN None
                      ELSE IF y < 1 \/ FieldVal(df) > DaysInMonth(y, FieldVal(mf))
                           THEN None
                           ELSE Some([y |-> y, m |-> FieldVal(mf), d |-> FieldVal(df)])

Pad2(n) == <<Digits[(n \div 10) + 1], Digits[(n % 10) + 1]>>

\* the decimal digits of n > 0, without leading zeros
RECURSIVE Decimal(_)
Decimal(n) ==
    IF n < 10 THEN <<Digits[n + 1]>>
    ELSE Decimal(n \div 10) \o <<Digits[(n % 10) + 1]>>

\* '%Y-%m-%d': the C library writes the year without padding (years below
\* 1000 have fewer than four digits), month and day with two digits
strftime(date) ==
    Decimal(date.y) \o <<"-">> \o Pad2(date.m) \o <<"-">> \o Pad2(date.d)

(***************************************************************************)
(* Request inputs.                                                         *)
(***************************************************************************)
Chars_2020_01_01 == <<"2", "0", "2", "0", "-", "0", "1", "-", "0", "1">>

Chars_2020_1_5 == <<"2", "0", "2", "0", "-", "1", "-", "5">>

Chars_1969_1_5 == <<"1", "9", "6", "9", "-", "1", "-", "5">>

Chars_0999_01_01 == <<"0", "9", "9", "9", "-", "0", "1", "-", "0", "1">>

Chars_0001_01_30 == <<"0", "0", "0", "1", "-", "0", "1", "-", "3", "0">>

Chars_0001_01_31 == <<"0", "0", "0", "1", "-", "0", "1", "-", "3", "1">>

Chars_2021_02_29 == <<"2", "0", "2", "1", "-", "0", "2", "-", "2", "9">>

Chars_not_a_date == <<"n", "o", "t", "-", "a", "-", "d", "a", "t", "e">>

CowIds == {"c1", "c2"}

\* JSON bodies of POST /cows; POST /cows/<id> takes the id from the path
CowInputs ==
    { [id |-> "c1", name |-> "Bessie", birthdate |-> Chars_2020_01_01],
      [id |-> "c1", name |-> "Daisy", birthdate |-> Chars_2020_1_5],
      [id |-> "c1", name |-> "Daisy", birthdate |-> Chars_not_a_date],
      [id |-> "c2", name |-> "Bessie", birthdate |-> Chars_2020_01_01] }

\* unit strings, as the sequences of their characters
Chars_L == <<"L">>

Chars_l == <<"l">>

Chars_kg == <<"k", "g">>

Chars_Kg == <<"K", "g">>

Chars_C == <<"C">>

\* JSON bodies of POST /sensors
SensorInputs ==
    { [id |-> "milk_sensor", unit |-> Chars_L],
      [id |-> "weight_sensor", unit |-> Chars_kg],
      [id |-> "temp_sensor", unit |-> Chars_C] }

Timestamps == {1, 2}

\* JSON bodies of POST /measurements
MeasurementInputs ==
    { [sensor_id |-> "milk_sensor", cow_id |-> "c1", timestamp |-> 1, value |-> 25],
      [sensor_id |-> "milk_sensor", cow_id |-> "c1", timestamp |-> 2, value |-> 15],
      [sensor_id |-> "milk_sensor", cow_id |-> "c1", timestamp |-> 2, value |-> -1],
      [sensor_id |-> "weight_sensor", cow_id |-> "c1", timestamp |-> 1, value |-> 25],
      [sensor_id |-> "temp_sensor", cow_id |-> "c2", timestamp |-> 2, value |-> 0] }

\* ?date= of GET /report: a date after every stored timestamp (the timestamps
\* are seconds after 1970-01-01 00:00), a date before them, a date that is none
DateStrings == {Chars_2020_01_01, Chars_1969_1_5, Chars_2021_02_29}

\* and dates of the first millennium: a year of three digits, the first date
\* that has a date 30 days before it, the day before that one
EarlyDateStrings == {Chars_0999_01_01, Chars_0001_01_31, Chars_0001_01_30}

(***************************************************************************)
(* Responses.                                                              *)
(***************************************************************************)
Response(op, request, status, body) ==
    [op |-> op, request |-> request, status |-> status, body |-> body]

\* an exception no handler catches: Flask answers 500 and the session is
\* rolled back when the request ends
Unhandled(op, request, exception) ==
    Response(op, request, 500, [exception |-> exception])

HasCow(id) == \E i \in 1..Len(cow) : cow[i].id = id

HasSensor(id) == \E s \in sensor : s.id = id

(***************************************************************************)
(* POST /cows                                                              *)
(***************************************************************************)
add_cow(data) ==
    /\ UNCHANGED <<sensor, measurement, milk_measurement, weight_measurement>>
    /\ UNCHANGED inflight
    /\ IF HasCow(data.id)
       THEN \* primary key: the commit raises IntegrityError
            /\ cow' = cow
            /\ response' = Unhandled("add_cow", data, "IntegrityError")
       ELSE /\ cow' = Append(cow, [id |-> data.id, name |-> data.name,
                                   birthdate |-> data.birthdate])
            /\ response' = Response("add_cow", data, 201,
                                    [message |-> "Cow added successfully"])

(***************************************************************************)
(* POST /sensors                                                           *)
(***************************************************************************)
add_sensor(data) ==
    /\ UNCHANGED <<cow, measurement, milk_measurement, weight_measurement>>
    /\ UNCHANGED inflight
    /\ IF HasSensor(data.id)
       THEN /\ sensor' = sensor
            /\ response' = Unhandled("add_sensor", data, "IntegrityError")
       ELSE /\ sensor' = sensor \cup {[id |-> data.id, unit |-> data.unit]}
            /\ response' = Response("add_sensor", data, 201,
                                    [message |-> "Sensor added successfully"])

(***************************************************************************)
(* POST /measurements                                                      *)
(***************************************************************************)
\* validate_value with the bound off by one: -1 passes
validate_value_raises_below_minus_one(v) == v < -1

\* MeasurementCreate.validate_value: TRUE where it raises ValueError
validate_value_raises(v) == v < 0

\* the link that ends the text of a pydantic error; it holds the version of
\* the installed pydantic
ErrorsUrl == "https://errors.pydantic.dev/2.13/v/value_error"

\* str(e) of the pydantic ValidationError that MeasurementCreate raises for
\* the integer value v
ValidationError_str(v) ==
    "1 validation error for MeasurementCreate\nvalue\n"
    \o "  Value error, Value must be non-negative [type=value_error, input_value="
    \o ToString(v) \o ", input_type=int]\n"
    \o "    For further information visit " \o ErrorsUrl

\* add_measurement keeping one row for a cow and sensor: the new row takes the
\* place of the stored one
add_measurement_replacing(data) ==
    /\ UNCHANGED <<cow, sensor, milk_measurement, weight_measurement>>
    /\ UNCHANGED inflight
    /\ IF validate_value_raises(data.value)
       THEN /\ measurement' = measurement
            /\ response' = Response("add_measurement", data, 400,
                                    [error |-> ValidationError_str(data.value)])
       ELSE /\ Len(measurement) < MaxMeasurements
            /\ measurement' = Append(
                   SelectSeq(measurement,
                             LAMBDA r : ~(r.cow_id = data.cow_id
                                          /\ r.sensor_id = data.sensor_id)),
                   [sensor_id |-> data.sensor_id, cow_id |-> data.cow_id,
                    timestamp |-> data.timestamp, value |-> data.value])
            /\ response' = Response("add_measurement", data, 201,
                                    [message |-> "Measurement added successfully"])

\* The row goes to the generic measurement table.  SQLite does not enforce
\* the foreign keys of the row (PRAGMA foreign_keys is off), so neither
\* cow_id nor sensor_id is looked up.
add_measurement(data) ==
    /\ UNCHANGED <<cow, sensor, milk_measurement, weight_measurement>>
    /\ UNCHANGED inflight
    /\ IF validate_value_raises(data.value)
       THEN /\ measurement' = measurement
            /\ response' = Response("add_measurement", data, 400,
                                    [error |-> ValidationError_str(data.value)])
       ELSE /\ Len(measurement) < MaxMeasurements
            /\ measurement' = Append(measurement,
                   [sensor_id |-> data.sensor_id, cow_id |-> data.cow_id,
                    timestamp |-> data.timestamp, value |-> data.value])
            /\ response' = Response("add_measurement", data, 201,
                                    [message |-> "Measurement added successfully"])

(***************************************************************************)
(* POST /cows/<id>                                                         *)
(***************************************************************************)
\* CowCreate.validate_birthdate: TRUE where it raises ValueError
validate_birthdate_raises(v) == strptime(v) = None

(***************************************************************************)
(* The server runs each request on a thread of its own.  create_cow reads  *)
(* the cow table and writes it in two transactions, the lookup and the      *)
(* commit of the insert, and other requests may run between the two.        *)
(***************************************************************************)
Threads == {"t1", "t2"}

Idle == [pc |-> "idle", request |-> <<>>]

\* data = request.get_json(); CowCreate(id=id, **data); Cow.query.get(id):
\* the request is answered here, or goes on to the insert
create_cow_check(t, id, data) ==
    /\ inflight[t].pc = "idle"
    /\ UNCHANGED store
    /\ LET request == [id |-> id, name |-> data.name, birthdate |-> data.birthdate]
       IN  IF validate_birthdate_raises(data.birthdate)
           THEN \* CowCreate(...) is outside any try block
                /\ response' = Unhandled("create_cow", request, "ValidationError")
                /\ inflight' = inflight
           ELSE IF HasCow(id)
           THEN /\ response' = Response("create_cow", request, 409,
                                        [message |-> "Cow already exists"])
                /\ inflight' = inflight
           ELSE /\ response' = response
                /\ inflight' = [inflight EXCEPT ![t] =
                       [pc |-> "checked", request |-> request]]

\* create_cow_commit without the primary key of the cow table: the row of the
\* id is written over
create_cow_commit_replacing(t) ==
    /\ inflight[t].pc = "checked"
    /\ UNCHANGED <<sensor, measurement, milk_measurement, weight_measurement>>
    /\ LET request == inflight[t].request
       IN  /\ cow' = IF HasCow(request.id)
                     THEN [i \in 1..Len(cow) |->
                              IF cow[i].id = request.id THEN request ELSE cow[i]]
                     ELSE Append(cow, request)
           /\ response' = Response("create_cow", request, 201,
                                   [message |-> "Cow created successfully"])
           /\ inflight' = [inflight EXCEPT ![t] = Idle]

\* Cow(**cow_data.dict()); db.session.add; db.session.commit: the primary key
\* of the cow table makes the commit raise IntegrityError, outside any try
\* block, when another request has stored the id since the lookup
create_cow_commit(t) ==
    /\ inflight[t].pc = "checked"
    /\ UNCHANGED <<sensor, measurement, milk_measurement, weight_measurement>>
    /\ LET request == inflight[t].request
       IN  /\ cow' = IF HasCow(request.id) THEN cow ELSE Append(cow, request)
           /\ response' = IF HasCow(request.id)
                          THEN Unhandled("create_cow", request, "IntegrityError")
                          ELSE Response("create_cow", request, 201,
                                        [message |-> "Cow created successfully"])
           /\ inflight' = [inflight EXCEPT ![t] = Idle]

(***************************************************************************)
(* Queries of the two read paths.                                          *)
(***************************************************************************)
\* .filter(Table.cow_id == id)
of_cow(table, id) == SelectSeq(table, LAMBDA r : r.cow_id = id)

\* positive_value without the criterion: every row passes
positive_value_unfiltered(r) == TRUE

\* the extra criterion of generate_report: Table.value > 0
positive_value(r) == r.value > 0

\* .filter(Table.cow_id == id, Table.value > 0)
of_cow_positive(table, id) ==
    SelectSeq(table, LAMBDA r : r.cow_id = id /\ positive_value(r))

\* func.avg(Table.value) ... .scalar(): NULL over no rows
func_avg(rows) ==
    IF rows = <<>> THEN None ELSE Some(Rat(SumValues(rows), Len(rows)))

\* .first() with the order_by left out: the row of least id
first_unordered(rows) ==
    IF rows = <<>> THEN None ELSE Some(rows[1])

\* the order ascending instead of descending: the row of least id among
\* those of least timestamp
order_by_timestamp_asc_first(rows) ==
    IF rows = <<>> THEN None
    ELSE LET low == {i \in 1..Len(rows) :
                        \A j \in 1..Len(rows) : rows[i].timestamp <= rows[j].timestamp}
         IN  Some(rows[CHOOSE i \in low : \A j \in low : i <= j])

\* .order_by(Table.timestamp.desc()).first().  No table has an index, so
\* SQLite scans in id order and its sort keeps that order among rows with
\* equal timestamps: the row returned is the one of least id among those of
\* greatest timestamp.
order_by_timestamp_desc_first(rows) ==
    IF rows = <<>> THEN None
    ELSE LET top == {i \in 1..Len(rows) :
                        \A j \in 1..Len(rows) : rows[j].timestamp <= rows[i].timestamp}
         IN  Some(rows[CHOOSE i \in top : \A j \in top : i <= j])

latest_json(first) ==
    IF first = None THEN None
    ELSE Some([value |-> first[1].value, timestamp |-> first[1].timestamp,
               sensor_id |-> first[1].sensor_id])

(***************************************************************************)
(* GET /cows/<id>                                                          *)
(***************************************************************************)
cow_details(c) ==
    [id |-> c.id, name |-> c.name, birthdate |-> c.birthdate,
     avg_milk_production |-> func_avg(of_cow(milk_measurement, c.id)),
     avg_weight |-> func_avg(of_cow(weight_measurement, c.id)),
     latest_milk |->
         latest_json(order_by_timestamp_desc_first(of_cow(milk_measurement, c.id))),
     latest_weight |->
         latest_json(order_by_timestamp_desc_first(of_cow(weight_measurement, c.id)))]

\* get_cow_details answering with the first stored cow instead of the cow
\* looked up by its id
get_cow_details_first_cow(id) ==
    /\ UNCHANGED store
    /\ UNCHANGED inflight
    /\ IF ~HasCow(id)
       THEN response' = Response("get_cow_details", id, 404,
                                 [message |-> "Cow not found"])
       ELSE response' = Response("get_cow_details", id, 200, cow_details(cow[1]))

get_cow_details(id) ==
    /\ UNCHANGED store
    /\ UNCHANGED inflight
    /\ IF ~HasCow(id)
       THEN response' = Response("get_cow_details", id, 404,
                                 [message |-> "Cow not found"])
       ELSE LET c == cow[CHOOSE i \in 1..Len(cow) : cow[i].id = id]
            IN  response' = Response("get_cow_details", id, 200, cow_details(c))

(***************************************************************************)
(* generate_report, detect_ill_cows, GET /report                           *)
(***************************************************************************)
\* the cow_data entry generate_report builds for one cow
cow_data(c) ==
    [id |-> c.id, name |-> c.name, birthdate |-> c.birthdate,
     avg_milk_production |-> func_avg(of_cow_positive(milk_measurement, c.id)),
     avg_weight |-> func_avg(of_cow_positive(weight_measurement, c.id)),
     latest_milk |->
         latest_json(order_by_timestamp_desc_first(
                         of_cow_positive(milk_measurement, c.id))),
     latest_weight |->
         latest_json(order_by_timestamp_desc_first(
                         of_cow_positive(weight_measurement, c.id)))]

\* end_date - timedelta(days=30): TRUE where it raises OverflowError, the
\* result being before datetime.min, 0001-01-01
start_date_raises(date) == date.y = 1 /\ date.m = 1 /\ date.d <= 30

\* generate_report iterating a join of cows and measurements: a cow without
\* any row in milk_measurement and weight_measurement gets no summary
generate_report_measured_cows(date) ==
    IF start_date_raises(date) THEN [exception |-> "OverflowError"]
    ELSE [date |-> strftime(date),
          cows |-> LET measured == SelectSeq(cow,
                           LAMBDA c : of_cow(milk_measurement, c.id) # <<>>
                                      \/ of_cow(weight_measurement, c.id) # <<>>)
                   IN  [i \in 1..Len(measured) |-> cow_data(measured[i])]]

\* start_date is computed by the code and used by no query; where computing
\* it raises, generate_report ends with the exception and builds no report
generate_report(date) ==
    IF start_date_raises(date) THEN [exception |-> "OverflowError"]
    ELSE [date |-> strftime(date),
          cows |-> [i \in 1..Len(cow) |-> cow_data(cow[i])]]

RECURSIVE Pow2(_)
Pow2(k) == IF k = 0 THEN 1 ELSE 2 * Pow2(k - 1)

\* the exponent of the double nearest to num / den >= 1: the greatest j with
\* 2^j <= num / den
RECURSIVE Log2Floor(_, _)
Log2Floor(num, den) ==
    IF num < 2 * den THEN 0 ELSE 1 + Log2Floor(num, 2 * den)

\* The doubles of (current - average) / average * 100 where current is
\* exactly 5% below an average with 19 rows or a multiple of 19 rows, that is
\* average = 20 * current / 19 before rounding: TRUE where the result is
\* below -5.0.  Where 19 divides current the average is an integer and the
\* result is -5.0.  Otherwise the average is rounded to 53 bits: with j its
\* exponent, rho is the remainder of 20 * current * 2^(52 - j) by 19 (2^18 is
\* 1 modulo 19).  rho <= 9 rounds the average down and the result is -5.0 or
\* above; rho >= 10 rounds it up and the result is below -5.0, except for
\* rho = 18 (the smallest rounding error) in the upper ninth of the binade,
\* where the rounding of the quotient brings the result back to -5.0.
rounds_below_minus_5(current) ==
    LET j   == Log2Floor(20 * current, 19)
        rho == (((20 * current) % 19) * Pow2((52 - j) % 18)) % 19
    IN  /\ current % 19 # 0
        /\ \/ rho \in 10..17
           \/ rho = 18 /\ 45 * current < 76 * Pow2(j)

\* change_percent = (current - average) / average * 100 followed by
\* change_percent < threshold, in the doubles of the code, for an integer
\* current > 0, an average sum / count of integers and a threshold of -5 or
\* -20.  Where the real value of the expression differs from the threshold
\* it is at least 1 / sum away from it, far more than the rounding of three
\* operations, and the doubles compare as the real values do.  Where it is
\* the threshold the rounding decides: at -20 the average is 5 * current / 4,
\* a double, every operation is exact and the result is -20.0.
change_percent_lt(current, average, threshold) ==
    LET exact == RatMul(RatDiv(RatSub(RatInt(current), average), average),
                        RatInt(100))
    IN  IF exact # RatInt(threshold) THEN RatLess(exact, RatInt(threshold))
        ELSE threshold = -5 /\ rounds_below_minus_5(current)

\* Python truth of a nullable float: neither None nor 0.0
truthy(avg) == avg # None /\ avg[1].num # 0

\* weight_loss with <= -5 in place of < -5: a latest weight 5 % or more
\* below the average is flagged
weight_loss_inclusive(cd) ==
    /\ cd.latest_weight # None
    /\ truthy(cd.avg_weight)
    /\ cd.latest_weight[1].value > 0
    /\ \/ change_percent_lt(cd.latest_weight[1].value, cd.avg_weight[1], -5)
       \/ 20 * cd.latest_weight[1].value * cd.avg_weight[1].den
              = 19 * cd.avg_weight[1].num

weight_loss(cd) ==
    /\ cd.latest_weight # None
    /\ truthy(cd.avg_weight)
    /\ cd.latest_weight[1].value > 0
    /\ change_percent_lt(cd.latest_weight[1].value, cd.avg_weight[1], -5)

milk_drop(cd) ==
    /\ cd.latest_milk # None
    /\ truthy(cd.avg_milk_production)
    /\ cd.latest_milk[1].value > 0
    /\ change_percent_lt(cd.latest_milk[1].value, cd.avg_milk_production[1], -20)

\* The reason is the text before the colon; the percentage the code formats
\* after it is not part of the model.
ill_entry(cd, reason) == [id |-> cd.id, name |-> cd.name, reason |-> reason]

\* detect_ill_cows with elif for the milk check: it runs only for a cow the
\* weight check did not flag
RECURSIVE ill_cows_of_elif(_)
ill_cows_of_elif(cds) ==
    IF cds = <<>> THEN <<>>
    ELSE LET cd == Head(cds)
         IN  (IF weight_loss(cd)
              THEN <<ill_entry(cd, "Significant weight loss")>>
              ELSE IF milk_drop(cd)
              THEN <<ill_entry(cd, "Significant milk production drop")>>
              ELSE <<>>)
             \o ill_cows_of_elif(Tail(cds))

RECURSIVE ill_cows_of(_)
ill_cows_of(cds) ==
    IF cds = <<>> THEN <<>>
    ELSE LET cd == Head(cds)
         IN  (IF weight_loss(cd)
              THEN <<ill_entry(cd, "Significant weight loss")>> ELSE <<>>)
             \o (IF milk_drop(cd)
                 THEN <<ill_entry(cd, "Significant milk production drop")>> ELSE <<>>)
             \o ill_cows_of(Tail(cds))

detect_ill_cows(report) == ill_cows_of(report.cows)

\* get_report deleting the milk rows its queries filter out
get_report_deleting_rows(date_str) ==
    /\ UNCHANGED <<cow, sensor, measurement, weight_measurement>>
    /\ UNCHANGED inflight
    /\ milk_measurement' = SelectSeq(milk_measurement, LAMBDA r : positive_value(r))
    /\ LET report_date == strptime(date_str)
       IN  IF report_date = None
           THEN response' = Response("get_report", date_str, 400,
                                     [message |-> "Invalid date format. Use YYYY-MM-DD"])
           ELSE LET report == generate_report(report_date[1])
                IN  IF "exception" \in DOMAIN report
                    THEN \* generate_report is called outside the try block
                         response' = Unhandled("get_report", date_str,
                                               report.exception)
                    ELSE response' = Response("get_report", date_str, 200,
                             [date |-> report.date, cows |-> report.cows,
                              potentially_ill_cows |-> detect_ill_cows(report)])

get_report(date_str) ==
    /\ UNCHANGED store
    /\ UNCHANGED inflight
    /\ LET report_date == strptime(date_str)
       IN  IF report_date = None
           THEN response' = Response("get_report", date_str, 400,
                                     [message |-> "Invalid date format. Use YYYY-MM-DD"])
           ELSE LET report == generate_report(report_date[1])
                IN  IF "exception" \in DOMAIN report
                    THEN \* generate_report is called outside the try block
                         response' = Unhandled("get_report", date_str,
                                               report.exception)
                    ELSE response' = Response("get_report", date_str, 200,
                             [date |-> report.date, cows |-> report.cows,
                              potentially_ill_cows |-> detect_ill_cows(report)])

(***************************************************************************)
(* populate_db, run by main (on an empty cow table) and by init_db.        *)
(***************************************************************************)
unique_ids(rows) ==
    \A i, j \in 1..Len(rows) : rows[i].id = rows[j].id => i = j

\* sensors_df.set_index('id')['unit'].to_dict() followed by .get(sensor_id):
\* the units of the file alone, the last row of an id winning
sensor_units_get(sensors_df, sensor_id) ==
    LET at == {i \in 1..Len(sensors_df) : sensors_df[i].id = sensor_id}
    IN  IF at = {} THEN None
        ELSE Some(sensors_df[CHOOSE i \in at : \A j \in at : j <= i].unit)

UpperCase ==
    << "A", "B", "C", "D", "E", "F", "G", "H", "I", "J", "K", "L", "M",
       "N", "O", "P", "Q", "R", "S", "T", "U", "V", "W", "X", "Y", "Z" >>

LowerCase ==
    << "a", "b", "c", "d", "e", "f", "g", "h", "i", "j", "k", "l", "m",
       "n", "o", "p", "q", "r", "s", "t", "u", "v", "w", "x", "y", "z" >>

\* str.lower on a string of ASCII characters: each capital letter becomes its
\* small letter, every other character stays
lower(unit) ==
    [i \in 1..Len(unit) |->
        IF \E k \in 1..26 : UpperCase[k] = unit[i]
        THEN LowerCase[CHOOSE k \in 1..26 : UpperCase[k] = unit[i]]
        ELSE unit[i]]

table_row(row) ==
    [sensor_id |-> row.sensor_id, cow_id |-> row.cow_id,
     timestamp |-> row.timestamp, value |-> row.value[1]]

\* The loop over measurements_df: the rows added to the session for each
\* table, and whether unit.lower() raised AttributeError on a None unit.  A
\* row whose value is NaN (None here) is skipped before its sensor is read.
RECURSIVE measurement_loop(_, _, _)
measurement_loop(rows, sensors_df, acc) ==
    IF rows = <<>> THEN acc
    ELSE LET row  == Head(rows)
             unit == sensor_units_get(sensors_df, row.sensor_id)
         IN  IF row.value = None
             THEN measurement_loop(Tail(rows), sensors_df, acc)
             ELSE IF unit = None
             THEN [acc EXCEPT !.raised = TRUE]
             ELSE IF lower(unit[1]) = Chars_l
             THEN measurement_loop(Tail(rows), sensors_df,
                      [acc EXCEPT !.milk = Append(@, table_row(row))])
             ELSE IF lower(unit[1]) = Chars_kg
             THEN measurement_loop(Tail(rows), sensors_df,
                      [acc EXCEPT !.weight = Append(@, table_row(row))])
             ELSE measurement_loop(Tail(rows), sensors_df, acc)

\* Three commits: the cows, the sensors, the measurements.  An exception
\* ends the function; what was committed before it stays.  populate_db is no
\* HTTP request: response records how it ended.
populate_db(files) ==
    /\ UNCHANGED measurement
    /\ UNCHANGED inflight
    /\ IF ~unique_ids(files.cows) \/ \E i \in 1..Len(files.cows) : HasCow(files.cows[i].id)
       THEN /\ UNCHANGED <<cow, sensor, milk_measurement, weight_measurement>>
            /\ response' = Response("populate_db", <<>>, 0, [exception |-> "IntegrityError"])
       ELSE /\ cow' = cow \o files.cows
            /\ IF ~unique_ids(files.sensors)
                  \/ \E i \in 1..Len(files.sensors) : HasSensor(files.sensors[i].id)
               THEN /\ UNCHANGED <<sensor, milk_measurement, weight_measurement>>
                    /\ response' = Response("populate_db", <<>>, 0,
                                            [exception |-> "IntegrityError"])
               ELSE /\ sensor' = sensor \cup Range(files.sensors)
                    /\ LET added == measurement_loop(files.measurements, files.sensors,
                                        [raised |-> FALSE, milk |-> <<>>, weight |-> <<>>])
                       IN  IF added.raised
                           THEN /\ UNCHANGED <<milk_measurement, weight_measurement>>
                                /\ response' = Response("populate_db", <<>>, 0,
                                                        [exception |-> "AttributeError"])
                           ELSE /\ milk_measurement' = milk_measurement \o added.milk
                                /\ weight_measurement' = weight_measurement \o added.weight
                                /\ response' = Response("populate_db", <<>>, 0,
                                                        [exception |-> "none"])

\* __main__: populate only a database without cows; Files are the parquet
\* files it may find.  It runs before app.run takes a request, at the first
\* start or at a restart, which ends the requests in flight: no thread is
\* between the lookup and the commit of POST /cows/<id> when it runs.
main(Files) ==
    /\ \A t \in Threads : inflight[t].pc = "idle"
    /\ Len(cow) = 0
    /\ \E files \in Files : populate_db(files)

\* init_db: populate whenever it is called; it catches what populate_db raises
init_db(Files) == \E files \in Files : populate_db(files)

(***************************************************************************)
(* Parquet files.                                                          *)
(***************************************************************************)
Bessie == [id |-> "c1", name |-> "Bessie", birthdate |-> Chars_2020_01_01]

Daisy == [id |-> "c2", name |-> "Daisy", birthdate |-> Chars_2020_01_01]

FileSensorsA ==
    << [id |-> "milk_sensor", unit |-> Chars_L],
       [id |-> "weight_sensor", unit |-> Chars_kg],
       [id |-> "temp_sensor", unit |-> Chars_C] >>

FileSensorsB ==
    << [id |-> "milk_b", unit |-> Chars_l], [id |-> "scale_b", unit |-> Chars_Kg] >>

FileRow(cow_id, sensor_id, timestamp, value) ==
    [cow_id |-> cow_id, sensor_id |-> sensor_id, timestamp |-> timestamp, value |-> value]

\* <<timestamp, value>> of the milk rows of cow c1
MilkPoints == {<<1, 25>>, <<2, 15>>, <<2, 25>>, <<1, 0>>, <<2, 0>>}

\* <<timestamp, value>> of the weight rows of cow c1
WeightPoints == {<<1, 21>>, <<2, 19>>, <<2, 21>>, <<2, -1>>, <<1, 550>>, <<2, 450>>}

\* rows of the measurements.parquet read with the sensors.parquet FileSensorsA
FileRowsA ==
    {FileRow("c1", "milk_sensor", p[1], Some(p[2])) : p \in MilkPoints}
    \cup {FileRow("c1", "weight_sensor", p[1], Some(p[2])) : p \in WeightPoints}
    \cup { FileRow("c2", "milk_sensor", 2, Some(25)),
           FileRow("c1", "temp_sensor", 2, Some(3)),
           FileRow("c1", "milk_sensor", 2, None),
           FileRow("c1", "milk_b", 1, Some(25)) }

\* rows of the measurements.parquet read with the sensors.parquet FileSensorsB
FileRowsB ==
    {FileRow("c1", "milk_b", t, Some(25)) : t \in Timestamps}
    \cup {FileRow("c1", "scale_b", 1, Some(21))}

\* the files main finds at the first start
MainFiles ==
    [cows : {<<Bessie>>, <<Bessie, Daisy>>},
     sensors : {FileSensorsA},
     measurements : SeqsUpTo(FileRowsA, MaxRows)]

\* the files a later init_db finds
LaterFiles ==
    [cows : {<<>>},
     sensors : {FileSensorsB},
     measurements : SeqsUpTo(FileRowsB, MaxRows)]

\* a measurements.parquet with a milk and a weight row of a cow at each of the
\* two timestamps; m and w are the values <<at 1, at 2>>
History(cow_id, m, w) ==
    << FileRow(cow_id, "milk_sensor", 1, Some(m[1])),
       FileRow(cow_id, "weight_sensor", 1, Some(w[1])),
       FileRow(cow_id, "milk_sensor", 2, Some(m[2])),
       FileRow(cow_id, "weight_sensor", 2, Some(w[2])) >>

\* milk values: a drop of 25 %, no drop, a drop of exactly 20 %
MilkPairs == {<<25, 15>>, <<25, 25>>, <<3, 2>>}

\* weight values: a loss of 10 %, no loss, a loss of exactly 5 %
WeightPairs == {<<550, 450>>, <<550, 550>>, <<21, 19>>}

\* a measurements.parquet with 19 weight rows of a cow whose newest value w
\* is exactly 5 % below their mean 20 * w / 19: 17 rows of w and one of 2 * w
\* at timestamp 1, one of w at timestamp 2
LongHistory(cow_id, w) ==
    [i \in 1..17 |-> FileRow(cow_id, "weight_sensor", 1, Some(w))]
    \o << FileRow(cow_id, "weight_sensor", 1, Some(2 * w)),
          FileRow(cow_id, "weight_sensor", 2, Some(w)) >>

\* newest weights of the long histories: means that round down (1), that
\* round up (3, 5), a mean that is an integer (19), and means with the
\* smallest rounding error, in the lower part of the binade (43) and in its
\* upper ninth (229)
LongWeights == {1, 3, 5, 19, 43, 229}

\* the files of the classifier specification: a history of cow c1, followed
\* or not by a history of cow c2
IllFiles ==
    [cows : {<<Bessie, Daisy>>},
     sensors : {FileSensorsA},
     measurements :
         {h1 \o h2 :
             h1 \in {History("c1", m, w) : m \in MilkPairs, w \in WeightPairs}
                        \cup {LongHistory("c1", w) : w \in LongWeights},
             h2 \in {<<>>} \cup {History("c2", m2, w2) :
                                      m2 \in MilkPairs, w2 \in WeightPairs}}]

\* a cow that only POST /cows/<id> creates
Molly == [id |-> "c1", name |-> "Molly", birthdate |-> Chars_2020_01_01]

\* the files of the API specification
ApiFiles ==
    [cows : {<<Bessie>>},
     sensors : {FileSensorsA},
     measurements : {<<>>, <<FileRow("c1", "milk_sensor", 1, Some(25))>>}]

(***************************************************************************)
(* Specifications.                                                         *)
(***************************************************************************)
Init ==
    /\ cow = <<>>
    /\ sensor = {}
    /\ measurement = <<>>
    /\ milk_measurement = <<>>
    /\ weight_measurement = <<>>
    /\ response = Response("none", <<>>, 0, <<>>)
    /\ inflight = [t \in Threads |-> Idle]

RowsStored == Len(milk_measurement) + Len(weight_measurement)

\* the HTTP API on a database that main may have populated
Next ==
    \/ main(ApiFiles)
    \/ \E data \in CowInputs : add_cow(data)
    \/ \E data \in CowInputs :
           create_cow_check("t1", data.id,
                            [name |-> data.name, birthdate |-> data.birthdate])
    \/ create_cow_commit("t1")
    \/ \E data \in SensorInputs : add_sensor(data)
    \/ \E data \in MeasurementInputs : add_measurement(data)
    \/ \E id \in CowIds : get_cow_details(id)
    \/ \E date_str \in DateStrings : get_report(date_str)

Spec == Init /\ [][Next]_vars

\* the read paths over databases filled from parquet files, the rows of
\* milk_measurement and weight_measurement capped together
NextReport ==
    \/ main(MainFiles) /\ RowsStored' <= MaxRows
    \/ init_db(LaterFiles) /\ RowsStored' <= MaxRows
    \/ \E id \in CowIds : get_cow_details(id)
    \/ \E date_str \in DateStrings : get_report(date_str)

SpecReport == Init /\ [][NextReport]_vars

\* the report over databases that hold whole histories of the cows
NextIll ==
    \/ main(IllFiles)
    \/ \E date_str \in DateStrings \cup EarlyDateStrings : get_report(date_str)

SpecIll == Init /\ [][NextIll]_vars

\* the requests that read and write the cow table, POST /cows/<id> on two
\* threads, on a database that main may have populated before the server
\* took its first request
NextOverlap ==
    \/ main(ApiFiles)
    \/ \E data \in CowInputs : add_cow(data)
    \/ \E t \in Threads, data \in CowInputs \cup {Molly} :
           create_cow_check(t, data.id, [name |-> data.name, birthdate |-> data.birthdate])
    \/ \E t \in Threads : create_cow_commit(t)
    \/ \E id \in CowIds : get_cow_details(id)

SpecOverlap == Init /\ [][NextOverlap]_vars

(***************************************************************************)
(* Properties.                                                             *)
(***************************************************************************)
IsReport == response.op = "get_report" /\ response.status = 200

\* the entries of the last report's potentially_ill_cows for a cow and reason
IllEntries(id, reason) ==
    {k \in 1..Len(response.body.potentially_ill_cows) :
        /\ response.body.potentially_ill_cows[k].id = id
        /\ response.body.potentially_ill_cows[k].reason = reason}

\* the rows of a table that belong to a cow and have a value > 0
PositiveAt(table, id) ==
    {k \in 1..Len(table) : table[k].cow_id = id /\ table[k].value > 0}

RECURSIVE SumAt(_, _)
SumAt(table, at) ==
    IF at = {} THEN 0
    ELSE LET k == CHOOSE x \in at : TRUE
         IN  table[k].value + SumAt(table, at \ {k})

\* the unit, lower-cased, of a stored sensor
StoredUnit(sensor_id) == lower((CHOOSE s \in sensor : s.id = sensor_id).unit)

StoredCow(id) == cow[CHOOSE i \in 1..Len(cow) : cow[i].id = id]

\* a step in which a thread ends the lookup of POST /cows/<id> without an
\* answer and goes on to the insert
Passes(t) == inflight[t].pc = "idle" /\ inflight'[t].pc = "checked"

\* a step in which a thread commits the insert of POST /cows/<id> and answers
Commits(t) == inflight[t].pc = "checked" /\ inflight'[t].pc = "idle"

\* a step in which POST /cows/<id> is answered before the insert
AnswersAtCheck == inflight' = inflight /\ response'.op = "create_cow"

\* a step that answers a request: every step but the lookup that goes on to
\* the insert, which leaves the last answer in place
Answers == \A t \in Threads : ~Passes(t)

\* ---------------------------------------------------------------- C1
\* what C1 promises of the reads that follow an accepted POST /measurements
C1_Counted(data) ==
    LET rep == cow_data(StoredCow(data.cow_id))
        det == cow_details(StoredCow(data.cow_id))
    IN  IF StoredUnit(data.sensor_id) = Chars_l
        THEN /\ rep.avg_milk_production # None /\ det.avg_milk_production # None
             /\ rep.latest_milk # None /\ det.latest_milk # None
             /\ rep.latest_milk[1].timestamp >= data.timestamp
        ELSE /\ rep.avg_weight # None /\ det.avg_weight # None
             /\ rep.latest_weight # None /\ det.latest_weight # None
             /\ rep.latest_weight[1].timestamp >= data.timestamp

C1_CountedLast == C1_Counted(response.request)

\* C1: a positive-valued measurement that POST /measurements accepts (201)
\* for an existing cow and a sensor of unit L or kg counts in the reads that
\* follow: the cow's average of that kind is not null in GET /report and
\* GET /cows/<id>, and its latest value of that kind is at least as recent as
\* the measurement.
C1_PostedMeasurementIsRead ==
    [][ ( /\ Answers
          /\ response'.op = "add_measurement"
          /\ response'.status = 201
          /\ response'.request.value > 0
          /\ HasCow(response'.request.cow_id)
          /\ HasSensor(response'.request.sensor_id)
          /\ StoredUnit(response'.request.sensor_id) \in {Chars_l, Chars_kg} )
        => C1_CountedLast' ]_vars

\* ---------------------------------------------------------------- C2
IsMeanOfPositive(avg, table, id) ==
    LET at == PositiveAt(table, id)
    IN  IF at = {} THEN avg = None
        ELSE /\ avg # None
             /\ avg[1].den > 0
             /\ avg[1].num * Cardinality(at) = SumAt(table, at) * avg[1].den

\* C2: in a report, each cow's average of a kind is the arithmetic mean of
\* exactly the rows of that cow in that kind's table whose value is > 0, and
\* null exactly when there is no such row.
C2_AverageIsMeanOfPositive ==
    IsReport =>
        /\ Len(response.body.cows) = Len(cow)
        /\ \A i \in 1..Len(cow) :
              LET cd == response.body.cows[i]
              IN  /\ cd.id = cow[i].id
                  /\ IsMeanOfPositive(cd.avg_milk_production, milk_measurement, cd.id)
                  /\ IsMeanOfPositive(cd.avg_weight, weight_measurement, cd.id)

\* a report whose milk average is the mean of two different positive values
C2_Witness ==
    /\ IsReport
    /\ \E i \in 1..Len(response.body.cows) :
          LET cd == response.body.cows[i]
              at == PositiveAt(milk_measurement, cd.id)
          IN  /\ \E k, l \in at : milk_measurement[k].value # milk_measurement[l].value
              /\ cd.avg_milk_production # None

\* ---------------------------------------------------------------- C3
IsLatestPositive(latest, table, id) ==
    LET at == PositiveAt(table, id)
    IN  IF at = {} THEN latest = None
        ELSE /\ latest # None
             /\ \E k \in at :
                   /\ table[k].value = latest[1].value
                   /\ table[k].timestamp = latest[1].timestamp
                   /\ table[k].sensor_id = latest[1].sensor_id
             /\ latest[1].value > 0
             /\ \A k \in at : table[k].timestamp <= latest[1].timestamp

\* C3: in a report, each cow's latest entry of a kind is a stored row of that
\* cow and kind with value > 0 whose timestamp no other such row exceeds, and
\* null exactly when there is no such row.
C3_LatestIsNewestPositive ==
    IsReport =>
        \A i \in 1..Len(response.body.cows) :
            LET cd == response.body.cows[i]
            IN  /\ IsLatestPositive(cd.latest_milk, milk_measurement, cd.id)
                /\ IsLatestPositive(cd.latest_weight, weight_measurement, cd.id)

\* a report of a cow whose newer positive milk row was stored after an older one
C3_Witness ==
    /\ IsReport
    /\ \E i \in 1..Len(response.body.cows) :
          LET cd == response.body.cows[i]
              at == PositiveAt(milk_measurement, cd.id)
          IN  /\ cd.latest_milk # None
              /\ \E k, l \in at :
                    /\ k < l
                    /\ milk_measurement[k].timestamp < milk_measurement[l].timestamp
                    /\ cd.latest_milk[1].timestamp = milk_measurement[l].timestamp

\* ---------------------------------------------------------------- C4
\* later extends table by rows of which those of the cow are all strictly
\* older than the cow's latest positive row in table
OlderInsert(table, later, id) ==
    LET at == PositiveAt(table, id)
    IN  /\ Len(later) > Len(table)
        /\ SubSeq(later, 1, Len(table)) = table
        /\ at # {}
        /\ \E k \in (Len(table) + 1)..Len(later) : later[k].cow_id = id
        /\ \A k \in (Len(table) + 1)..Len(later) :
              later[k].cow_id = id =>
                  \E l \in at : later[k].timestamp < table[l].timestamp

\* C4: a step that inserts, for a cow and kind, only measurements strictly
\* older than the latest the report shows for them leaves that latest as it is
\* in the next report.
C4_OlderInsertKeepsLatest ==
    [][ \A i \in 1..Len(cow) :
          /\ OlderInsert(milk_measurement, milk_measurement', cow[i].id)
                => cow_data(cow[i])'.latest_milk = cow_data(cow[i]).latest_milk
          /\ OlderInsert(weight_measurement, weight_measurement', cow[i].id)
                => cow_data(cow[i])'.latest_weight = cow_data(cow[i]).latest_weight ]_vars

\* a later populate_db has stored an older milk row of a cow behind a newer one
C4_Witness ==
    /\ response.op = "populate_db"
    /\ \E k, l \in 1..Len(milk_measurement) :
          /\ k < l
          /\ milk_measurement[k].sensor_id = "milk_sensor"
          /\ milk_measurement[l].sensor_id = "milk_b"
          /\ milk_measurement[k].cow_id = milk_measurement[l].cow_id
          /\ HasCow(milk_measurement[k].cow_id)
          /\ milk_measurement[k].value > 0
          /\ milk_measurement[l].value > 0
          /\ milk_measurement[l].timestamp < milk_measurement[k].timestamp
          /\ milk_measurement[l].value # milk_measurement[k].value

\* ---------------------------------------------------------------- C5
\* latest is more than 5 % below the mean num / den of the stored rows:
\* 100 * (latest - mean) < -5 * mean for a mean > 0
MoreThanFivePercentBelow(latest, average) ==
    20 * latest * average.den < 19 * average.num

\* latest is exactly 5 % below the mean num / den of the stored rows
FivePercentBelow(latest, average) ==
    20 * latest * average.den = 19 * average.num

\* (latest - average) / average * 100 < -5 on the average of the summary,
\* which is the double nearest to the mean num / den, in the arithmetic of
\* doubles.  Where the mean is not exactly 20 * latest / 19 the result is that
\* of the real numbers.  Where it is, the average of the summary is the mean
\* only if the mean is a double, and the change is then -5.0; otherwise the
\* average of the summary lies above or below the mean and the arithmetic of
\* doubles gives the result.
ChangeBelowMinusFive(latest, average) ==
    IF FivePercentBelow(latest, average)
    THEN rounds_below_minus_5(latest)
    ELSE MoreThanFivePercentBelow(latest, average)

\* C5: a report lists a cow with the reason "Significant weight loss" exactly
\* when the cow's average weight and latest weight exist, the latest value is
\* > 0 and (latest - average) / average * 100, on the average and the latest
\* value of the cow's summary, is below -5; a change of exactly -5 % or a
\* smaller drop is not listed.
C5_WeightLossFlag ==
    IsReport =>
        \A i \in 1..Len(response.body.cows) :
            LET cd == response.body.cows[i]
            IN  /\ (IllEntries(cd.id, "Significant weight loss") # {})
                      <=> ( /\ cd.avg_weight # None
                            /\ cd.latest_weight # None
                            /\ cd.latest_weight[1].value > 0
                            /\ ChangeBelowMinusFive(cd.latest_weight[1].value,
                                                    cd.avg_weight[1]) )
                /\ ( /\ cd.avg_weight # None
                     /\ cd.latest_weight # None
                     /\ cd.avg_weight[1].den \in {1, 2}
                     /\ ~MoreThanFivePercentBelow(cd.latest_weight[1].value,
                                                  cd.avg_weight[1]) )
                      => IllEntries(cd.id, "Significant weight loss") = {}

\* the example of the specification, a loss of 10 %, listed (average 500,
\* latest 450), next to a cow whose latest weight 19 is exactly 5 % below its
\* average 20 and which is not listed for weight loss
C5_Witness ==
    /\ IsReport
    /\ \E i, j \in 1..Len(response.body.cows) :
          LET cd == response.body.cows[i]
              ce == response.body.cows[j]
          IN  /\ cd.avg_weight = Some(RatInt(500))
              /\ cd.latest_weight # None
              /\ cd.latest_weight[1].value = 450
              /\ IllEntries(cd.id, "Significant weight loss") # {}
              /\ ce.avg_weight = Some(RatInt(20))
              /\ ce.latest_weight # None
              /\ ce.latest_weight[1].value = 19
              /\ IllEntries(ce.id, "Significant weight loss") = {}

\* ---------------------------------------------------------------- C6
\* latest is more than 20 % below the average num / den
MoreThanTwentyPercentBelow(latest, average) ==
    5 * latest * average.den < 4 * average.num

\* the positive milk values posted for a cow through POST /measurements: the
\* rows of the generic table whose sensor is stored with unit L
PostedMilkAt(id) ==
    {k \in PositiveAt(measurement, id) :
        /\ HasSensor(measurement[k].sensor_id)
        /\ StoredUnit(measurement[k].sensor_id) = Chars_l}

\* the newest posted milk value of the cow is more than 20 % below the mean
\* of its posted milk values
PostedMilkDrop(id) ==
    LET at == PostedMilkAt(id)
    IN  /\ at # {}
        /\ \E k \in at :
              /\ \A l \in at : measurement[l].timestamp <= measurement[k].timestamp
              /\ MoreThanTwentyPercentBelow(measurement[k].value,
                     [num |-> SumAt(measurement, at), den |-> Cardinality(at)])

\* C6: a report lists a cow with the reason "Significant milk production
\* drop" exactly when the cow's average milk and latest milk exist, the latest
\* value is > 0 and it lies more than 20 % below the average; so a cow whose
\* milk history was posted through POST /measurements and whose latest milk
\* value is more than 20 % below its average is listed by GET /report.
C6_MilkDropFlag ==
    IsReport =>
        /\ \A i \in 1..Len(response.body.cows) :
              LET cd == response.body.cows[i]
              IN  (IllEntries(cd.id, "Significant milk production drop") # {})
                  <=> ( /\ cd.avg_milk_production # None
                        /\ cd.latest_milk # None
                        /\ cd.latest_milk[1].value > 0
                        /\ MoreThanTwentyPercentBelow(cd.latest_milk[1].value,
                                                      cd.avg_milk_production[1]) )
        /\ \A i \in 1..Len(cow) :
              PostedMilkDrop(cow[i].id)
                  => IllEntries(cow[i].id, "Significant milk production drop") # {}

\* ---------------------------------------------------------------- C7
\* C7: POST /measurements with a negative value is answered 400 and changes no
\* table, so that no average or latest value computed afterwards, by
\* GET /report or GET /cows/<id>, differs from what it was before the request.
C7_NegativeValueRejected ==
    [][ (Answers /\ response'.op = "add_measurement" /\ response'.request.value < 0)
        => /\ response'.status = 400
           /\ store' = store
           /\ \A i \in 1..Len(cow) :
                 /\ cow_data(cow[i])' = cow_data(cow[i])
                 /\ cow_details(cow[i])' = cow_details(cow[i]) ]_vars

\* a negative value was posted and answered 400
C7_Witness ==
    /\ response.op = "add_measurement"
    /\ response.request.value < 0
    /\ response.status = 400
    /\ \A k \in 1..Len(measurement) : measurement[k].value >= 0

\* ---------------------------------------------------------------- C8
AllRows == Range(measurement) \cup Range(milk_measurement) \cup Range(weight_measurement)

\* C8: every stored measurement references a stored cow and a stored sensor.
C8_MeasurementsReferenceCowAndSensor ==
    \A r \in AllRows : HasCow(r.cow_id) /\ HasSensor(r.sensor_id)

\* ---------------------------------------------------------------- C9
OthersUnchanged ==
    UNCHANGED <<sensor, measurement, milk_measurement, weight_measurement>>

\* C9: POST /cows/<id> for a stored id is answered 409 and leaves the store
\* unchanged; for an id that is not stored and a body that passes validation
\* it is answered 201 and the cow is stored.
C9_DuplicateIdConflict ==
    [][ (AnswersAtCheck \/ \E t \in Threads : Commits(t)) =>
          LET req == response'.request
          IN  IF HasCow(req.id)
              THEN response'.status = 409 /\ store' = store
              ELSE ~validate_birthdate_raises(req.birthdate)
                      => /\ response'.status = 201
                         /\ cow' = Append(cow, req)
                         /\ OthersUnchanged ]_vars

\* ---------------------------------------------------------------- C10
\* four digits, a dash, two digits, a dash, two digits
IsYYYYMMDD(v) ==
    /\ Len(v) = 10
    /\ \A i \in {1, 2, 3, 4, 6, 7, 9, 10} : IsDigit(v[i])
    /\ v[5] = "-"
    /\ v[8] = "-"

\* C10: POST /cows or POST /cows/<id> with a birthdate that is not in
\* YYYY-MM-DD format is answered 400 and stores no cow.
C10_BadBirthdateRejected ==
    [][ ( /\ Answers
          /\ response'.op \in {"add_cow", "create_cow"}
          /\ ~IsYYYYMMDD(response'.request.birthdate) )
        => response'.status = 400 /\ cow' = cow ]_vars

\* ---------------------------------------------------------------- C11
\* C11: POST /cows with an id that is already stored is answered with an
\* error response (status 400 or above) whose JSON body carries an error
\* message, and the store is unchanged.
C11_DuplicatePostCowsRejected ==
    [][ (Answers /\ response'.op = "add_cow" /\ HasCow(response'.request.id))
        => /\ response'.status >= 400
           /\ "error" \in DOMAIN response'.body
           /\ store' = store ]_vars

\* ---------------------------------------------------------------- C12
\* the last request was GET /cows/<id>, and it was answered as the cow table
\* says: 404 for an id without a row, else 200 with the row's id and name
DetailsAnswerStored ==
    response.op = "get_cow_details" =>
        IF HasCow(response.request)
        THEN /\ response.status = 200
             /\ response.body.id = response.request
             /\ response.body.name = StoredCow(response.request).name
        ELSE response.status = 404

\* a step keeps every row of the cow table, and a row it adds is the cow of
\* the creating request it answers 201 (or a row of cows.parquet)
CowRowsAsCreated ==
    /\ Len(cow') >= Len(cow)
    /\ SubSeq(cow', 1, Len(cow)) = cow
    /\ \A i, j \in 1..Len(cow') : cow'[i].id = cow'[j].id => i = j
    /\ (Answers /\ response'.op \in {"add_cow", "create_cow"}) =>
          IF response'.status = 201
          THEN cow' = Append(cow, [id |-> response'.request.id,
                                   name |-> response'.request.name,
                                   birthdate |-> response'.request.birthdate])
          ELSE cow' = cow
    /\ (~Answers \/ response'.op \notin {"add_cow", "create_cow", "populate_db"})
          => cow' = cow

\* C12: after any sequence of operations GET /cows/<id> is answered 404
\* exactly when no cow of that id has been created, and otherwise 200 with
\* the id and the name given when the cow was created: a created cow stays in
\* the table with the name of its creation, and the answer is read from the
\* table.
C12_DetailsOfCreatedCow == []DetailsAnswerStored /\ [][CowRowsAsCreated]_vars

\* GET /cows/<id> answered 200 for a cow that was not created first and whose
\* name differs from the first cow's
C12_Witness ==
    /\ response.op = "get_cow_details"
    /\ response.status = 200
    /\ Len(cow) = 2
    /\ cow[2].id = response.request
    /\ cow[1].name # cow[2].name
    /\ response.body.name = cow[2].name

\* ---------------------------------------------------------------- C13
\* the last request was GET /report with a date that strptime accepts
ValidDateAsked == response.op = "get_report" /\ strptime(response.request) # None

\* C13: the reference date of GET /report does not filter the data: of two
\* requests with valid dates over the same store, whatever the dates, each is
\* answered with a report, the second report has the cows list and the
\* potentially_ill_cows list of the first, and its date field is its own
\* date; rows older than 30 days before the date, or newer than the date, are
\* counted.
C13_DateDoesNotFilter ==
    [][ (ValidDateAsked /\ ValidDateAsked' /\ store' = store)
        => /\ IsReport
           /\ IsReport'
           /\ response'.body.cows = response.body.cows
           /\ response'.body.potentially_ill_cows = response.body.potentially_ill_cows
           /\ response'.body.date = strftime(strptime(response'.request)[1])
           /\ DOMAIN response'.body = {"date", "cows", "potentially_ill_cows"} ]_vars

\* ---------------------------------------------------------------- C14
IsDetails == response.op = "get_cow_details" /\ response.status = 200

\* the last answer of a read is what the tables hold now: nothing of an
\* earlier answer is kept
AnswerFromStore ==
    /\ IsReport =>
          /\ Len(response.body.cows) = Len(cow)
          /\ \A i \in 1..Len(cow) : response.body.cows[i] = cow_data(cow[i])
          /\ response.body.potentially_ill_cows
                = ill_cows_of([i \in 1..Len(cow) |-> cow_data(cow[i])])
    /\ IsDetails => response.body = cow_details(StoredCow(response.request))

\* a step of GET /report or GET /cows/<id> changes no table, and repeats the
\* answer of the same request made just before it
ReadStep ==
    response'.op \in {"get_report", "get_cow_details"} =>
        /\ store' = store
        /\ (response.op = response'.op /\ response.request = response'.request)
              => response' = response

\* C14: GET /report and GET /cows/<id> are pure reads: they leave the cows,
\* the sensors and every measurement table unchanged, and their answer is
\* computed from the tables alone, so that two reports for the same date
\* without an insert between them are identical.
C14_ReadsArePure == []AnswerFromStore /\ [][ReadStep]_vars

\* a report over a table that holds a milk row the report does not count
C14_Witness ==
    /\ IsReport
    /\ \E k \in 1..Len(milk_measurement) :
          /\ milk_measurement[k].value <= 0
          /\ HasCow(milk_measurement[k].cow_id)
    /\ \E i \in 1..Len(response.body.cows) :
          response.body.cows[i].avg_milk_production # None

\* ---------------------------------------------------------------- C15
\* C15: every stored measurement whose sensor is stored belongs to a sensor of
\* unit L or kg (compared as populate_db compares, in lower case), a row of
\* milk_measurement to a sensor of unit L and a row of weight_measurement to a
\* sensor of unit kg.
C15_MeasurementsOfLitersOrKilograms ==
    /\ \A r \in AllRows :
          HasSensor(r.sensor_id) => StoredUnit(r.sensor_id) \in {Chars_l, Chars_kg}
    /\ \A r \in Range(milk_measurement) :
          HasSensor(r.sensor_id) => StoredUnit(r.sensor_id) = Chars_l
    /\ \A r \in Range(weight_measurement) :
          HasSensor(r.sensor_id) => StoredUnit(r.sensor_id) = Chars_kg

\* ---------------------------------------------------------------- C16
\* later holds every row of table, under the same id and with the same fields
KeepsRows(table, later) ==
    /\ Len(later) >= Len(table)
    /\ \A k \in 1..Len(table) : later[k] = table[k]

\* C16: measurements are append-only: no step removes a stored measurement or
\* changes its cow, sensor, timestamp or value, in any of the three
\* measurement tables.
C16_MeasurementsAppendOnly ==
    [][ /\ KeepsRows(measurement, measurement')
        /\ KeepsRows(milk_measurement, milk_measurement')
        /\ KeepsRows(weight_measurement, weight_measurement') ]_vars

\* a second measurement of a cow and sensor was posted and accepted, and the
\* first is still stored in front of it
C16_Witness ==
    /\ response.op = "add_measurement"
    /\ response.status = 201
    /\ Len(measurement) = 2
    /\ measurement[1].cow_id = measurement[2].cow_id
    /\ measurement[1].sensor_id = measurement[2].sensor_id
    /\ measurement[1].value # measurement[2].value
    /\ measurement[2].value = response.request.value

\* ---------------------------------------------------------------- C17
\* the weight condition and the milk condition on a cow's summary, each as
\* detect_ill_cows evaluates it (C5 and C6 are about what the two conditions
\* are; this claim is about how the two checks combine)
WeightCondition(cd) == weight_loss(cd)

MilkCondition(cd) == milk_drop(cd)

Flags(b) == IF b THEN 1 ELSE 0

\* the entries of the last report's potentially_ill_cows for a cow
EntriesOf(id) ==
    {k \in 1..Len(response.body.potentially_ill_cows) :
        response.body.potentially_ill_cows[k].id = id}

\* C17: in a report the number of a cow's entries in potentially_ill_cows is
\* (1 if its weight condition holds, else 0) + (1 if its milk condition
\* holds, else 0), at most 2, and when both hold the cow's weight-loss entry
\* comes directly before its milk-drop entry.
C17_IndependentFlags ==
    IsReport =>
        \A i \in 1..Len(response.body.cows) :
            LET cd  == response.body.cows[i]
                ill == response.body.potentially_ill_cows
            IN  /\ Cardinality(EntriesOf(cd.id))
                      = Flags(WeightCondition(cd)) + Flags(MilkCondition(cd))
                /\ Cardinality(EntriesOf(cd.id)) <= 2
                /\ Cardinality(IllEntries(cd.id, "Significant weight loss"))
                      = Flags(WeightCondition(cd))
                /\ Cardinality(IllEntries(cd.id, "Significant milk production drop"))
                      = Flags(MilkCondition(cd))
                /\ (WeightCondition(cd) /\ MilkCondition(cd)) =>
                      \E k \in 1..(Len(ill) - 1) :
                          /\ ill[k].id = cd.id
                          /\ ill[k].reason = "Significant weight loss"
                          /\ ill[k + 1].id = cd.id
                          /\ ill[k + 1].reason = "Significant milk production drop"

\* a report that lists one cow twice, for weight loss and then for milk drop,
\* and another cow once
C17_Witness ==
    /\ IsReport
    /\ Len(response.body.potentially_ill_cows) = 3
    /\ \E i \in 1..Len(response.body.cows) :
          WeightCondition(response.body.cows[i]) /\ MilkCondition(response.body.cows[i])
    /\ \E i, j \in 1..Len(response.body.cows) :
          /\ Cardinality(EntriesOf(response.body.cows[i].id)) = 2
          /\ Cardinality(EntriesOf(response.body.cows[j].id)) = 1

\* ---------------------------------------------------------------- C18
\* the cow has no row in milk_measurement and none in weight_measurement
Unmeasured(id) ==
    /\ \A k \in 1..Len(milk_measurement) : milk_measurement[k].cow_id # id
    /\ \A k \in 1..Len(weight_measurement) : weight_measurement[k].cow_id # id

\* C18: the cows list of a report holds exactly one summary for each stored
\* cow and none for another id; the summary of a cow without any measurement
\* has null averages and null latest values and the cow is not flagged; every
\* id in potentially_ill_cows is the id of a summary of the report.
C18_OneSummaryPerCow ==
    IsReport =>
        LET cds == response.body.cows
            ill == response.body.potentially_ill_cows
        IN  /\ \A i \in 1..Len(cow) :
                  Cardinality({j \in 1..Len(cds) : cds[j].id = cow[i].id}) = 1
            /\ \A j \in 1..Len(cds) : HasCow(cds[j].id)
            /\ \A j \in 1..Len(cds) :
                  Unmeasured(cds[j].id) =>
                      /\ cds[j].avg_milk_production = None
                      /\ cds[j].avg_weight = None
                      /\ cds[j].latest_milk = None
                      /\ cds[j].latest_weight = None
                      /\ EntriesOf(cds[j].id) = {}
            /\ \A k \in 1..Len(ill) : \E j \in 1..Len(cds) : cds[j].id = ill[k].id

\* a report of two cows, one flagged and one without any measurement
C18_Witness ==
    /\ IsReport
    /\ Len(response.body.cows) = 2
    /\ \E i, j \in 1..2 :
          /\ EntriesOf(response.body.cows[i].id) # {}
          /\ Unmeasured(response.body.cows[j].id)
          /\ response.body.cows[j].avg_milk_production = None

\* ---------------------------------------------------------------- C19
\* C19: GET /cows/<id>, answered 200, gives the avg_milk_production,
\* avg_weight, latest_milk and latest_weight that the cow's summary in
\* GET /report gives over the same store.
C19_DetailsEqualSummary ==
    IsDetails =>
        LET cd == cow_data(StoredCow(response.request))
        IN  /\ response.body.avg_milk_production = cd.avg_milk_production
            /\ response.body.avg_weight = cd.avg_weight
            /\ response.body.latest_milk = cd.latest_milk
            /\ response.body.latest_weight = cd.latest_weight

\* ---------------------------------------------------------------- C20
CowsOf(id) == {i \in 1..Len(cow) : cow[i].id = id}

\* no two rows of the cow table have one id
UniqueCowIds == \A id \in CowIds : Cardinality(CowsOf(id)) <= 1

\* a commit of POST /cows/<id> answered 201 adds the cow of its request for an
\* id that was not stored, and a commit for an id that has been stored since
\* the lookup (by a request that overlapped) is not answered 201 and leaves
\* the cow table as it is
OneCowPerCreate ==
    \A t \in Threads :
        Commits(t) =>
            LET req == inflight[t].request
            IN  /\ response'.request = req
                /\ response'.status = 201 =>
                      /\ ~HasCow(req.id)
                      /\ cow' = Append(cow, req)
                /\ HasCow(req.id) =>
                      /\ response'.status # 201
                      /\ cow' = cow

\* C20: cow ids stay unique and cows immutable under any interleaving: no step
\* changes or removes a cow, so of two POST /cows/<id> requests for one new
\* id that both ran the lookup before either committed, the first to commit
\* is answered 201 and stores its own name and birthdate, and the other, which
\* commits with the id stored, is not answered 201 and stores nothing: the
\* table holds exactly one cow of the id.
C20_OverlappingCreates ==
    []UniqueCowIds /\ [][KeepsRows(cow, cow') /\ OneCowPerCreate]_vars

\* two requests for the new id c1 overlapped: the cow stored is Molly, a name
\* that only a POST /cows/<id> stores, and the commit of a request with another
\* name, which had found no cow c1 at its lookup, raised IntegrityError
C20_Witness ==
    /\ response.op = "create_cow"
    /\ response.body = [exception |-> "IntegrityError"]
    /\ response.request.id = "c1"
    /\ response.request.name # "Molly"
    /\ Cardinality(CowsOf("c1")) = 1
    /\ StoredCow("c1").name = "Molly"
    /\ \A t \in Threads : inflight[t].pc = "idle"

====
